---- MODULE Spec2Model ----
(***************************************************************************)
(* Model of SchedulerApp (src/schedulercpu.py): a FIFO ready queue of      *)
(* process names "P<n>", an enqueue handler (add_process), and a           *)
(* simulation loop (start_simulation / process_next_item) that dequeues    *)
(* one process per step, shows it on the "CPU" label, sleeps, clears the   *)
(* label and re-schedules itself with after(500, ...).                      *)
(*                                                                         *)
(* The application is single-threaded.  A handler runs either from the     *)
(* event loop or nested inside a self.update() call of a handler that is   *)
(* already running; `stack` holds the process_next_item invocations that   *)
(* have dequeued a process and not yet returned.                           *)
(***************************************************************************)
EXTENDS Integers, Sequences, FiniteSets, TLC

\* Bounds of the exploration (not program constants).
MaxProcs == 3     \* add_process is explored up to this many processes
MaxStarts == 3    \* start_simulation is explored up to this many calls

VARIABLES
    process_queue,    \* self.process_queue   (deque of names, head first)
    process_counter,  \* self.process_counter
    add_button,       \* state of self.add_button:   "normal" | "disabled"
    start_button,     \* state of self.start_button: "normal" | "disabled"
    cpu_label,        \* text of self.cpu_label ("" = empty CPU)
    queue_labels,     \* texts of the labels in self.queue_labels
    timers,           \* number of pending after(500, process_next_item)
    stack,            \* process_next_item invocations in progress
    raised,           \* TRUE once a handler has raised an exception
    log,              \* observable transitions so far (history)
    starts,           \* number of start_simulation calls so far (history)
    runBase,          \* Len(log) when the latest start_simulation began
    runQueue          \* process_queue when the latest start_simulation began

vars == <<process_queue, process_counter, add_button, start_button, cpu_label,
          queue_labels, timers, stack, raised, log, starts, runBase, runQueue>>

\* ------------------------------------------------------------------------
\* Observable transitions recorded in `log`.
SimStarted == <<"SimStarted", "">>       \* both buttons disabled
SimEnded == <<"SimEnded", "">>           \* both buttons re-enabled
ExecStarted(p) == <<"ExecStarted", p>>   \* cpu_label shows p
ExecEnded(p) == <<"ExecEnded", p>>       \* cpu_label cleared by the step that ran p

\* ------------------------------------------------------------------------
\* Pure helpers.

\* f"P{self.process_counter}"
ProcessName(n) == "P" \o ToString(n)

\* The number a process name was generated from.
SeqNum(name) == CHOOSE n \in 0..(MaxProcs + 1) : ProcessName(n) = name

\* Variant of popleft that removes the tail (deque.pop()).
popleft_right(q) ==
    IF q = <<>>
    THEN [raised |-> TRUE, value |-> "", rest |-> q]
    ELSE [raised |-> FALSE, value |-> q[Len(q)], rest |-> SubSeq(q, 1, Len(q) - 1)]

\* Variant of popleft that reads the head without removing it.
popleft_peek(q) ==
    IF q = <<>>
    THEN [raised |-> TRUE, value |-> "", rest |-> q]
    ELSE [raised |-> FALSE, value |-> Head(q), rest |-> q]

\* deque.popleft(): removes the head; raises IndexError on an empty deque.
popleft(q) ==
    IF q = <<>>
    THEN [raised |-> TRUE, value |-> "", rest |-> q]
    ELSE [raised |-> FALSE, value |-> Head(q), rest |-> Tail(q)]

\* Variant of update_queue_display that empties the deque while drawing it.
update_queue_display_drain(q) ==
    [labels |-> [i \in 1..Len(q) |-> q[i]], queue |-> <<>>]

\* update_queue_display on a deque holding q: the texts of the labels it
\* creates, one per queued process in queue order, and the deque as the
\* enumerate() loop leaves it.
update_queue_display(q) ==
    [labels |-> [i \in 1..Len(q) |-> q[i]], queue |-> q]

\* ------------------------------------------------------------------------
Init ==
    /\ process_queue = <<>>
    /\ process_counter = 0
    /\ add_button = "normal"
    /\ start_button = "normal"
    /\ cpu_label = ""
    /\ queue_labels = <<>>
    /\ timers = 0
    /\ stack = <<>>
    /\ raised = FALSE
    /\ log = <<>>
    /\ starts = 0
    /\ runBase = 0
    /\ runQueue = <<>>

\* ------------------------------------------------------------------------
\* Variant of add_process that inserts at the head (deque.appendleft()).
add_process_left ==
    /\ process_counter' = process_counter + 1
    /\ LET d == update_queue_display(
                    <<ProcessName(process_counter + 1)>> \o process_queue)
       IN /\ process_queue' = d.queue
          /\ queue_labels' = d.labels
    /\ UNCHANGED <<add_button, start_button, cpu_label, timers, stack, raised,
                   log, starts, runBase, runQueue>>

\* Variant of add_process that does not redraw the queue.
add_process_noRedraw ==
    /\ process_counter' = process_counter + 1
    /\ process_queue' = Append(process_queue, ProcessName(process_counter + 1))
    /\ UNCHANGED <<queue_labels, add_button, start_button, cpu_label, timers,
                   stack, raised, log, starts, runBase, runQueue>>

\* add_process: ENQUEUE a new name at the tail and redraw the queue.
add_process ==
    /\ process_counter' = process_counter + 1
    /\ LET d == update_queue_display(
                    Append(process_queue, ProcessName(process_counter + 1)))
       IN /\ process_queue' = d.queue
          /\ queue_labels' = d.labels
    /\ UNCHANGED <<add_button, start_button, cpu_label, timers, stack, raised,
                   log, starts, runBase, runQueue>>

\* Variant of process_next_item whose else-branch leaves the start button
\* disabled.
process_next_item_noEnable(addIn, startIn, logIn) ==
    IF process_queue # <<>>
    THEN LET r == popleft(process_queue) IN
         IF r.raised
         THEN /\ raised' = TRUE
              /\ add_button' = addIn
              /\ start_button' = startIn
              /\ log' = logIn
              /\ UNCHANGED <<process_queue, queue_labels, cpu_label, stack>>
         ELSE /\ process_queue' = update_queue_display(r.rest).queue
              /\ queue_labels' = update_queue_display(r.rest).labels
              /\ cpu_label' = r.value
              /\ stack' = Append(stack, [current_process |-> r.value,
                                         pc |-> "on_cpu"])
              /\ log' = Append(logIn, ExecStarted(r.value))
              /\ add_button' = addIn
              /\ start_button' = startIn
              /\ UNCHANGED raised
    ELSE /\ add_button' = "normal"
         /\ start_button' = startIn
         /\ log' = Append(logIn, SimEnded)
         /\ UNCHANGED <<process_queue, queue_labels, cpu_label, stack, raised>>

\* Variant of process_next_item that re-enables the buttons as soon as a
\* process has been dequeued.
process_next_item_enableEarly(addIn, startIn, logIn) ==
    IF process_queue # <<>>
    THEN LET r == popleft(process_queue) IN
         IF r.raised
         THEN /\ raised' = TRUE
              /\ add_button' = addIn
              /\ start_button' = startIn
              /\ log' = logIn
              /\ UNCHANGED <<process_queue, queue_labels, cpu_label, stack>>
         ELSE /\ process_queue' = update_queue_display(r.rest).queue
              /\ queue_labels' = update_queue_display(r.rest).labels
              /\ cpu_label' = r.value
              /\ stack' = Append(stack, [current_process |-> r.value,
                                         pc |-> "on_cpu"])
              /\ log' = Append(logIn, ExecStarted(r.value))
              /\ add_button' = "normal"
              /\ start_button' = "normal"
              /\ UNCHANGED raised
    ELSE /\ add_button' = "normal"
         /\ start_button' = "normal"
         /\ log' = Append(logIn, SimEnded)
         /\ UNCHANGED <<process_queue, queue_labels, cpu_label, stack, raised>>

\* Variant of process_next_item that pops without testing for emptiness.
process_next_item_noCheck(addIn, startIn, logIn) ==
    IF Len(process_queue) >= 0
    THEN LET r == popleft(process_queue) IN
         IF r.raised
         THEN /\ raised' = TRUE
              /\ add_button' = addIn
              /\ start_button' = startIn
              /\ log' = logIn
              /\ UNCHANGED <<process_queue, queue_labels, cpu_label, stack>>
         ELSE /\ process_queue' = update_queue_display(r.rest).queue
              /\ queue_labels' = update_queue_display(r.rest).labels
              /\ cpu_label' = r.value
              /\ stack' = Append(stack, [current_process |-> r.value,
                                         pc |-> "on_cpu"])
              /\ log' = Append(logIn, ExecStarted(r.value))
              /\ add_button' = addIn
              /\ start_button' = startIn
              /\ UNCHANGED raised
    ELSE /\ add_button' = "normal"
         /\ start_button' = "normal"
         /\ log' = Append(logIn, SimEnded)
         /\ UNCHANGED <<process_queue, queue_labels, cpu_label, stack, raised>>

\* process_next_item up to its first self.update() (line 133), or its whole
\* else-branch.  addIn, startIn and logIn are the button states and the log
\* as the caller left them.
process_next_item(addIn, startIn, logIn) ==
    IF process_queue # <<>>
    THEN LET r == popleft(process_queue) IN
         IF r.raised
         THEN /\ raised' = TRUE
              /\ add_button' = addIn
              /\ start_button' = startIn
              /\ log' = logIn
              /\ UNCHANGED <<process_queue, queue_labels, cpu_label, stack>>
         ELSE /\ process_queue' = update_queue_display(r.rest).queue
              /\ queue_labels' = update_queue_display(r.rest).labels
              /\ cpu_label' = r.value
              /\ stack' = Append(stack, [current_process |-> r.value,
                                         pc |-> "on_cpu"])
              /\ log' = Append(logIn, ExecStarted(r.value))
              /\ add_button' = addIn
              /\ start_button' = startIn
              /\ UNCHANGED raised
    ELSE /\ add_button' = "normal"
         /\ start_button' = "normal"
         /\ log' = Append(logIn, SimEnded)
         /\ UNCHANGED <<process_queue, queue_labels, cpu_label, stack, raised>>

\* Variant of start_simulation that leaves the start button enabled.
start_simulation_keepStart ==
    /\ starts' = starts + 1
    /\ runBase' = Len(log)
    /\ runQueue' = process_queue
    /\ process_next_item("disabled", start_button, Append(log, SimStarted))
    /\ UNCHANGED <<process_counter, timers>>

\* Variant of start_simulation that leaves the add button enabled.
start_simulation_keepAdd ==
    /\ starts' = starts + 1
    /\ runBase' = Len(log)
    /\ runQueue' = process_queue
    /\ process_next_item(add_button, "disabled", Append(log, SimStarted))
    /\ UNCHANGED <<process_counter, timers>>

\* Variant of start_simulation that restarts the numbering of processes.
start_simulation_reset ==
    /\ starts' = starts + 1
    /\ runBase' = Len(log)
    /\ runQueue' = process_queue
    /\ process_next_item("disabled", "disabled", Append(log, SimStarted))
    /\ process_counter' = 0
    /\ UNCHANGED timers

\* start_simulation: disable both buttons, then run the first step.
start_simulation ==
    /\ starts' = starts + 1
    /\ runBase' = Len(log)
    /\ runQueue' = process_queue
    /\ process_next_item("disabled", "disabled", Append(log, SimStarted))
    /\ UNCHANGED <<process_counter, timers>>

\* ------------------------------------------------------------------------
\* The "Add New Process" button: a disabled button ignores the click.
ClickAdd ==
    /\ process_counter < MaxProcs
    /\ ~raised
    /\ IF add_button = "normal" THEN add_process ELSE UNCHANGED vars

\* The "Start Simulation" button.
ClickStart ==
    /\ starts < MaxStarts
    /\ ~raised
    /\ IF start_button = "normal" THEN start_simulation ELSE UNCHANGED vars

\* A pending after(500, self.process_next_item) callback fires.
TimerFire ==
    /\ timers > 0
    /\ ~raised
    /\ timers' = timers - 1
    /\ process_next_item(add_button, start_button, log)
    /\ UNCHANGED <<process_counter, starts, runBase, runQueue>>

\* Variant of FinishExecution that leaves the CPU label as it is.
FinishExecution_noClear ==
    /\ stack # <<>>
    /\ ~raised
    /\ stack[Len(stack)].pc = "on_cpu"
    /\ log' = Append(log, ExecEnded(stack[Len(stack)].current_process))
    /\ stack' = [stack EXCEPT ![Len(stack)].pc = "cleared"]
    /\ UNCHANGED <<process_queue, process_counter, add_button, start_button,
                   cpu_label, queue_labels, timers, raised, starts, runBase,
                   runQueue>>

\* The innermost step returns from update(), sleeps (time.sleep(2)) and
\* clears the CPU label; it is then inside the second update() (line 140).
FinishExecution ==
    /\ stack # <<>>
    /\ ~raised
    /\ stack[Len(stack)].pc = "on_cpu"
    /\ cpu_label' = ""
    /\ log' = Append(log, ExecEnded(stack[Len(stack)].current_process))
    /\ stack' = [stack EXCEPT ![Len(stack)].pc = "cleared"]
    /\ UNCHANGED <<process_queue, process_counter, add_button, start_button,
                   queue_labels, timers, raised, starts, runBase, runQueue>>

\* Variant of ScheduleNext that calls after() twice.
ScheduleNext_twice ==
    /\ stack # <<>>
    /\ ~raised
    /\ stack[Len(stack)].pc = "cleared"
    /\ timers' = timers + 2
    /\ stack' = SubSeq(stack, 1, Len(stack) - 1)
    /\ UNCHANGED <<process_queue, process_counter, add_button, start_button,
                   cpu_label, queue_labels, raised, log, starts, runBase,
                   runQueue>>

\* Variant of ScheduleNext that returns without calling after().
ScheduleNext_noAfter ==
    /\ stack # <<>>
    /\ ~raised
    /\ stack[Len(stack)].pc = "cleared"
    /\ timers' = timers
    /\ stack' = SubSeq(stack, 1, Len(stack) - 1)
    /\ UNCHANGED <<process_queue, process_counter, add_button, start_button,
                   cpu_label, queue_labels, raised, log, starts, runBase,
                   runQueue>>

\* The innermost step returns from the second update(), schedules the next
\* step with after(500, ...) and returns.
ScheduleNext ==
    /\ stack # <<>>
    /\ ~raised
    /\ stack[Len(stack)].pc = "cleared"
    /\ timers' = timers + 1
    /\ stack' = SubSeq(stack, 1, Len(stack) - 1)
    /\ UNCHANGED <<process_queue, process_counter, add_button, start_button,
                   cpu_label, queue_labels, raised, log, starts, runBase,
                   runQueue>>

\* The application as the user drives it: mainloop() with the two buttons.
Next == ClickAdd \/ ClickStart \/ TimerFire \/ FinishExecution \/ ScheduleNext

Spec == Init /\ [][Next]_vars

\* ------------------------------------------------------------------------
\* The two entry points called directly, bypassing the buttons.
CallAdd ==
    /\ process_counter < MaxProcs
    /\ ~raised
    /\ add_process

CallStart ==
    /\ starts < MaxStarts
    /\ ~raised
    /\ start_simulation

NextCore == CallAdd \/ CallStart \/ TimerFire \/ FinishExecution \/ ScheduleNext

SpecCore == Init /\ [][NextCore]_vars

\* The event loop keeps running: pending callbacks fire and a running step
\* proceeds through its sleep and its after() call.
FairSpec ==
    Spec /\ WF_vars(TimerFire) /\ WF_vars(FinishExecution) /\ WF_vars(ScheduleNext)

\* ------------------------------------------------------------------------
\* Derived notions used by the properties.

\* The controller state of the design, read off the widgets.
ControllerState ==
    IF cpu_label # "" THEN "Busy"
    ELSE IF start_button = "disabled" THEN "Running"
    ELSE "Idle"

TypeOK ==
    /\ process_counter \in 0..MaxProcs
    /\ add_button \in {"normal", "disabled"}
    /\ start_button \in {"normal", "disabled"}
    /\ timers \in 0..MaxStarts
    /\ raised \in BOOLEAN
    /\ Len(queue_labels) <= MaxProcs

\* ------------------------------------------------------------------------
\* Helpers of the properties.

Last(sq) == sq[Len(sq)]

\* A step has just logged the end of a simulation.
SimulationEnds == Len(log') > Len(log) /\ Last(log') = SimEnded

\* process_next_item has just been invoked (by start_simulation or a timer).
StepInvoked == starts' = starts + 1 \/ timers' = timers - 1

\* The transitions logged since the latest start_simulation.
RunSegment == SubSeq(log, runBase + 1, Len(log))

\* The names P<lo>, ..., P<hi> in order.
Names(lo, hi) == [i \in 1..(hi - lo + 1) |-> ProcessName(lo + i - 1)]

RECURSIVE ExecTrace(_)
ExecTrace(q) ==
    IF q = <<>> THEN <<>>
    ELSE <<ExecStarted(Head(q)), ExecEnded(Head(q))>> \o ExecTrace(Tail(q))

\* What a complete run over the queue q logs.
ExpectedRun(q) == <<SimStarted>> \o ExecTrace(q) \o <<SimEnded>>

\* Number of steps that have put a process on the CPU and not yet cleared it.
OnCpu == Cardinality({i \in DOMAIN stack : stack[i].pc = "on_cpu"})

\* ------------------------------------------------------------------------
\* C1: when a simulation ends, the transitions logged since its start are
\* SimStarted, then ExecStarted(p), ExecEnded(p) for each process p that was
\* queued at the start, in queue order, then exactly one SimEnded; the queue
\* is then empty; in the first run the processes are P1..PN, N the number of
\* enqueues.
C1_RunToCompletion ==
    [][SimulationEnds =>
          /\ RunSegment' = ExpectedRun(runQueue')
          /\ process_queue' = <<>>
          /\ (starts' = 1 => runQueue' = Names(1, process_counter'))]_vars

C1_Witness ==
    /\ starts = 1
    /\ Len(runQueue) = 3
    /\ Last(log) = SimEnded
    /\ Len(log) = 8
    /\ process_queue = <<>>

\* C2: the queue always holds the most recently generated names, in the
\* order they were enqueued: strictly increasing sequence numbers, ending
\* with the newest name; before any dequeue it is exactly P1..Pcounter.
C2_QueueOrder ==
    /\ \A i, j \in DOMAIN process_queue :
          i < j => SeqNum(process_queue[i]) < SeqNum(process_queue[j])
    /\ process_queue =
          Names(process_counter - Len(process_queue) + 1, process_counter)
    /\ (starts = 0 => process_queue = Names(1, process_counter))

C2_Witness ==
    /\ starts >= 1
    /\ Len(process_queue) >= 2
    /\ Head(process_queue) # "P1"
    /\ start_button = "normal"

\* C3: a start_simulation call made while the buttons are disabled (a run is
\* in progress) changes neither the queue nor the controller state, and
\* creates no second chain of steps.
C3_SecondStartIsNoOp ==
    [][(starts' = starts + 1 /\ start_button = "disabled") =>
          /\ process_queue' = process_queue
          /\ ControllerState' = ControllerState
          /\ stack' = stack
          /\ timers' = timers]_vars

\* C4: at most one process is on the CPU at a time, and a process starts
\* executing only after every process enqueued before it has finished.
C4_FifoNoOverlap ==
    /\ OnCpu <= 1
    /\ Len(stack) <= 1
    /\ \A k \in DOMAIN log :
          log[k][1] = "ExecStarted" =>
             \A n \in 1..(SeqNum(log[k][2]) - 1) :
                \E j \in 1..(k - 1) : log[j] = ExecEnded(ProcessName(n))

C4_Witness ==
    /\ OnCpu = 1
    /\ cpu_label = "P3"
    /\ process_queue = <<>>

\* C5: start_simulation on an empty queue logs SimStarted immediately
\* followed by SimEnded, starts no execution, schedules no step and leaves
\* the controller Idle with both buttons enabled.
C5_StartOnEmpty ==
    [][(starts' = starts + 1 /\ process_queue = <<>>) =>
          /\ log' = log \o <<SimStarted, SimEnded>>
          /\ stack' = stack
          /\ timers' = timers
          /\ cpu_label' = ""
          /\ ControllerState' = "Idle"
          /\ add_button' = "normal"
          /\ start_button' = "normal"]_vars

C5_Witness ==
    /\ starts >= 1
    /\ runQueue = <<>>
    /\ Len(log) >= 2
    /\ log[Len(log) - 1] = SimStarted
    /\ Last(log) = SimEnded

\* C6: under fair firing of the pending callbacks, a started simulation
\* always comes back to Idle with an empty queue and both buttons enabled.
C6_RunTerminates ==
    (start_button = "disabled") ~>
        (/\ ControllerState = "Idle"
         /\ process_queue = <<>>
         /\ add_button = "normal"
         /\ start_button = "normal"
         /\ stack = <<>>)

C6_Witness ==
    /\ starts >= 1
    /\ Len(runQueue) >= 2
    /\ ControllerState = "Idle"
    /\ process_queue = <<>>
    /\ add_button = "normal"

\* C7: the buttons are re-enabled only by a step that finds the queue empty
\* while no process is on the CPU.
C7_EndsOnlyWhenEmpty ==
    [][(\/ SimulationEnds
        \/ (start_button = "disabled" /\ start_button' = "normal")
        \/ (add_button = "disabled" /\ add_button' = "normal")) =>
          /\ process_queue = <<>>
          /\ process_queue' = <<>>
          /\ cpu_label' = ""
          /\ stack' = <<>>]_vars

C7_Witness ==
    /\ starts >= 1
    /\ Len(runQueue) >= 1
    /\ Last(log) = SimEnded
    /\ start_button = "normal"
    /\ add_button = "normal"

\* C8: a step that finds the queue empty leaves the queue empty, leaves the
\* counter and the displayed labels unchanged, raises nothing and reports
\* the end of the simulation.
C8_DequeueOnEmpty ==
    [][(StepInvoked /\ process_queue = <<>>) =>
          /\ process_queue' = <<>>
          /\ process_counter' = process_counter
          /\ queue_labels' = queue_labels
          /\ ~raised'
          /\ Last(log') = SimEnded]_vars

C8_Witness ==
    /\ Len(log) >= 2
    /\ Last(log) = SimEnded
    /\ log[Len(log) - 1][1] = "ExecEnded"
    /\ process_queue = <<>>
    /\ ~raised

\* C9: the counter never decreases, changes only by an enqueue and then by
\* exactly one; no name is in the queue twice and none is executed twice.
C9_CounterMonotonic ==
    /\ [][/\ process_counter' \in {process_counter, process_counter + 1}
          /\ (process_counter' = process_counter + 1 <=>
                 process_queue' =
                    Append(process_queue, ProcessName(process_counter + 1)))
          /\ Len(process_queue') > Len(process_queue) =>
                 process_counter' = process_counter + 1]_vars
    /\ [](\A i, j \in DOMAIN process_queue :
             process_queue[i] = process_queue[j] => i = j)
    /\ [](\A i, j \in DOMAIN log :
             (log[i][1] = "ExecStarted" /\ log[i] = log[j]) => i = j)

C9_Witness ==
    /\ process_counter = 3
    /\ starts >= 2
    /\ Len(process_queue) = 1

\* C10: while a run is in progress the queue never grows and the counter
\* does not change; outside a run the queue is changed only by an enqueue
\* (or by the first dequeue of the run that a start begins).
C10_QueueMutators ==
    [][/\ start_button = "disabled" =>
             /\ Len(process_queue') <= Len(process_queue)
             /\ process_counter' = process_counter
       /\ (start_button = "normal" /\ process_queue' # process_queue) =>
             \/ (start_button' = "disabled" /\ process_queue' = Tail(process_queue))
             \/ process_queue' =
                   Append(process_queue, ProcessName(process_counter'))]_vars

C10_Witness ==
    /\ start_button = "disabled"
    /\ add_button = "disabled"
    /\ Len(process_queue) >= 1
    /\ cpu_label # ""

\* ------------------------------------------------------------------------
\* C11: after a process is put on the CPU, and again after the CPU is
\* cleared, control is back at the event loop: no step is still in progress,
\* so the step that ends an execution is not the one that started it.
C11_TwoSuspensionPoints ==
    [][(Len(log') > Len(log)
        /\ Last(log')[1] \in {"ExecStarted", "ExecEnded"}) =>
          stack' = <<>>]_vars

\* C12: whenever no handler is in progress, the displayed labels are the
\* queue contents, in the same order and of the same length.
C12_DisplayMatchesQueue ==
    stack = <<>> =>
        /\ Len(queue_labels) = Len(process_queue)
        /\ \A i \in DOMAIN process_queue : queue_labels[i] = process_queue[i]

C12_Witness ==
    /\ stack = <<>>
    /\ starts >= 1
    /\ timers = 0
    /\ queue_labels = <<"P2", "P3">>

\* C13: the CPU label is empty initially, whenever the buttons are enabled
\* and whenever a deferred step is pending; it is set exactly while a step
\* holds a process on the CPU, and then shows the process dequeued last.
C13_CpuSlot ==
    /\ (log = <<>> => cpu_label = "")
    /\ (start_button = "normal" => cpu_label = "")
    /\ (timers > 0 => cpu_label = "")
    /\ (cpu_label = "" => OnCpu = 0)
    /\ (cpu_label # "" =>
          /\ stack # <<>>
          /\ Last(stack).pc = "on_cpu"
          /\ Last(stack).current_process = cpu_label
          /\ Last(log) = ExecStarted(cpu_label)
          /\ \A i \in DOMAIN process_queue : process_queue[i] # cpu_label)

C13_Witness ==
    /\ cpu_label = "P2"
    /\ process_queue = <<"P3">>
    /\ timers = 0
    /\ start_button = "disabled"

\* C14: a step that has finished a process returns after scheduling exactly
\* one deferred step, without dequeuing; a process is dequeued only by a
\* fresh invocation (a start or a fired callback) while no step is running.
C14_DeferredNextStep ==
    [][/\ Len(stack') < Len(stack) =>
             /\ timers' = timers + 1
             /\ process_queue' = process_queue
             /\ log' = log
             /\ stack' = <<>>
       /\ Len(process_queue') < Len(process_queue) =>
             /\ stack = <<>>
             /\ StepInvoked
       /\ (Len(log') > Len(log) /\ Last(log')[1] = "ExecEnded") =>
             /\ process_queue' = process_queue
             /\ timers' = timers]_vars

C14_Witness ==
    /\ Len(log) >= 4
    /\ log[Len(log) - 1][1] = "ExecEnded"
    /\ Last(log)[1] = "ExecStarted"
    /\ timers = 0
    /\ Len(stack) = 1

\* C15: add_process can be called in any state; it appends exactly one new
\* name at the tail, keeps the queued names in place, and changes neither
\* the buttons, the CPU label, the pending callbacks nor the running steps.
C15_EnqueueFrame ==
    /\ [](process_counter < MaxProcs /\ ~raised => ENABLED CallAdd)
    /\ [][process_counter' # process_counter =>
            /\ process_counter' = process_counter + 1
            /\ Len(process_queue') = Len(process_queue) + 1
            /\ Last(process_queue') = ProcessName(process_counter')
            /\ SubSeq(process_queue', 1, Len(process_queue)) = process_queue
            /\ ControllerState' = ControllerState
            /\ UNCHANGED <<cpu_label, add_button, start_button, timers, stack,
                           raised, log>>]_vars

C15_Witness ==
    /\ cpu_label = "P1"
    /\ runQueue = <<"P1">>
    /\ process_queue = <<"P2", "P3">>
    /\ start_button = "disabled"

\* C16: redrawing the queue does not change it: after every step that
\* redraws, the labels show the queue as the step's enqueue or dequeue left
\* it, and the counter moves only with an enqueue.
C16_RedrawReadsOnly ==
    [][queue_labels' # queue_labels =>
          /\ queue_labels' = process_queue'
          /\ \/ /\ process_queue' =
                      Append(process_queue, ProcessName(process_counter + 1))
                /\ process_counter' = process_counter + 1
             \/ /\ process_queue # <<>>
                /\ process_queue' = Tail(process_queue)
                /\ process_counter' = process_counter]_vars

C16_Witness ==
    /\ queue_labels = <<"P2", "P3">>
    /\ process_queue = <<"P2", "P3">>
    /\ cpu_label = ""
    /\ timers = 1

\* C17: the two buttons are always in the same state, and they are disabled
\* exactly while a run is in progress (a step is running or a deferred step
\* is pending).
C17_ButtonsTogether ==
    /\ add_button = start_button
    /\ (start_button = "disabled" <=> (stack # <<>> \/ timers > 0))

\* A second run has processed a process that was added after the first run.
C17_Witness ==
    /\ starts = 2
    /\ runBase >= 4
    /\ runQueue = <<"P3">>
    /\ Last(log) = SimEnded
    /\ add_button = "normal"
    /\ start_button = "normal"

\* C18: in the button-driven application at most one deferred step is
\* pending, none is pending while a step is running, and none is pending
\* once the buttons are enabled again.
C18_SingleChain ==
    /\ timers <= 1
    /\ timers + Len(stack) <= 1
    /\ (start_button = "normal" => timers = 0)

C18_Witness ==
    /\ timers = 1
    /\ stack = <<>>
    /\ process_queue = <<>>
    /\ start_button = "disabled"

\* The processes whose execution has ended.
Completed == {log[i][2] : i \in {k \in DOMAIN log : log[k][1] = "ExecEnded"}}

\* The number of places (queue, CPU, completed) that hold the name p.
Places(p) ==
    Cardinality({i \in DOMAIN process_queue : process_queue[i] = p})
    + (IF cpu_label = p THEN 1 ELSE 0)
    + Cardinality({k \in DOMAIN log : log[k] = ExecEnded(p)})

\* C19: every name generated so far is in exactly one of the queue, the CPU
\* and the completed processes, so completed + CPU + queue length equals
\* the counter.
C19_Conservation ==
    /\ \A n \in 1..process_counter : Places(ProcessName(n)) = 1
    /\ Cardinality(Completed) + (IF cpu_label # "" THEN 1 ELSE 0)
          + Len(process_queue) = process_counter
    /\ \A i \in DOMAIN process_queue : process_queue[i] # cpu_label

C19_Witness ==
    /\ starts = 2
    /\ cpu_label = "P2"
    /\ process_queue = <<"P3">>
    /\ Completed = {"P1"}
====
